---- MODULE Spec2Model ----
(***************************************************************************)
(* Model of utils/logger/logger.go: a package-level *zap.Logger pointer    *)
(* (globalLogger), InitLogger, GetLogger, Sync and the Debug/Info/Warn/    *)
(* Error/Fatal helpers.                                                    *)
(*                                                                         *)
(* Two specifications are given.                                           *)
(*   Spec          one caller; every exported function is one step.        *)
(*   SpecFirstUse  several goroutines inside GetLogger and the helpers at  *)
(*                 the granularity of the accesses to globalLogger, which  *)
(*                 the code performs without any synchronisation.          *)
(*                                                                         *)
(* A *zap.Logger is immutable once built, so a pointer to one is modelled   *)
(* as the object itself together with its identity (the field id); Nil is  *)
(* the nil pointer.                                                        *)
(*                                                                         *)
(* zap itself is a library outside the package.  What is modelled of it:   *)
(* a logger is a list of cores, a core has an encoder, a destination and a *)
(* level, a record is written to every core whose level admits it, records *)
(* above Error are followed by a sync of the core, Fatal exits the process *)
(* after writing, a method called on a nil *zap.Logger panics, and         *)
(* zap.NewProduction returns (logger, nil) or (nil, err).  The sampling of *)
(* the production preset is not modelled.                                  *)
(***************************************************************************)
EXTENDS Integers, Sequences, FiniteSets, TLC

\* ------------------------------------------------------------------ bounds
MaxCalls == 3      \* InitLogger and Debug/Info/Warn/Error calls in one behaviour
NumThreads == 2    \* goroutines of SpecFirstUse
MaxFallbacks == 2  \* fallback loggers constructed in one behaviour of SpecFirstUse

\* ------------------------------------------------------- program constants
Nil == [id |-> 0, kind |-> "nil", cores |-> <<>>]
DebugLevel == -1
InfoLevel == 0
WarnLevel == 1
ErrorLevel == 2
FatalLevel == 5

\* ------------------------------------------------------------------ inputs
LevelStrings == {"debug", "info", "warn", "error", "", "DEBUG", "trace"}
FilePaths == {"a.log", "b.log", "/nodir/x.log"}
Unopenable == {"/nodir/x.log"}  \* the directory is missing: os.OpenFile fails
LogFiles == {""} \cup FilePaths
Msgs == {"m"}
Threads == 1..NumThreads
Dests == {"stdout", "stderr"} \cup LogFiles

VARIABLES
    globalLogger,  \* the package variable: Nil or a logger
    nextId,        \* identity of the next logger object built
    out,           \* records written to each destination, in order
    dirty,         \* destinations holding records no Sync has flushed yet
    exists,        \* log files that exist
    handles,       \* open file handles, [lg, path]; nothing in the package closes one
    proc,          \* "running", "exited" (os.Exit by Fatal) or "crashed" (panic)
    result,        \* how the last call of Spec's caller ended, and what it returned
    nCalls,        \* InitLogger and Debug/Info/Warn/Error calls made so far
    prodErr,       \* history: zap.NewProduction has reported an error
    pc,            \* per goroutine: where it stands in GetLogger or a helper
    req,           \* per goroutine: the function it called and the arguments
    mine,          \* per goroutine: the logger it built at line 81 of this call, if any
    got,           \* per goroutine: what GetLogger returned to it
    used           \* history: every value GetLogger returned to a goroutine

vars == <<globalLogger, nextId, out, dirty, exists, handles,
          proc, result, nCalls, prodErr, pc, req, mine, got, used>>

shared == <<globalLogger, nextId, out, dirty, exists, handles>>
threadVars == <<pc, req, mine, got, used>>

\* ------------------------------------------------------- InitLogger pieces
\* lines 16-28: the level switch
ParseLevelFolded(level) ==
    CASE level \in {"debug", "DEBUG"} -> DebugLevel
      [] level = "info" -> InfoLevel
      [] level = "warn" -> WarnLevel
      [] level = "error" -> ErrorLevel
      [] OTHER -> InfoLevel

ParseLevel(level) ==
    CASE level = "debug" -> DebugLevel
      [] level = "info" -> InfoLevel
      [] level = "warn" -> WarnLevel
      [] level = "error" -> ErrorLevel
      [] OTHER -> InfoLevel

\* line 58: the console core
ConsoleCore(zapLevel) == [enc |-> "console", dest |-> "stdout", lvl |-> zapLevel]

\* line 67: the file core
FileCoreDebug(logFile, zapLevel) == [enc |-> "json", dest |-> logFile, lvl |-> DebugLevel]

FileCore(logFile, zapLevel) == [enc |-> "json", dest |-> logFile, lvl |-> zapLevel]

\* line 61: is a file sink asked for
WantsFileAlways(logFile) == TRUE

WantsFile(logFile) == logFile # ""

\* lines 57-68: the cores of the logger being built
Cores(zapLevel, logFile) ==
    <<ConsoleCore(zapLevel)>> \o
    (IF WantsFile(logFile) THEN <<FileCore(logFile, zapLevel)>> ELSE <<>>)

\* line 62: os.OpenFile(O_APPEND|O_CREATE|O_WRONLY) fails
OpenFails(logFile) == logFile \in Unopenable

\* lines 63-65: return the error; nothing was assigned
InitLoggerErrInstalls(level, logFile) ==
    /\ globalLogger' = [id |-> nextId, kind |-> "explicit",
                        cores |-> <<ConsoleCore(ParseLevel(level))>>]
    /\ nextId' = nextId + 1
    /\ result' = [outcome |-> "error", value |-> Nil]
    /\ UNCHANGED <<out, dirty, exists, handles>>

InitLoggerErr(level, logFile) ==
    /\ result' = [outcome |-> "error", value |-> Nil]
    /\ UNCHANGED shared

\* lines 66-74: the file (if any) is open; build the logger and assign it
InitLoggerFirstWins(level, logFile) ==
    /\ globalLogger' = IF globalLogger = Nil
                       THEN [id |-> nextId, kind |-> "explicit",
                             cores |-> Cores(ParseLevel(level), logFile)]
                       ELSE globalLogger
    /\ nextId' = nextId + 1
    /\ handles' = IF WantsFile(logFile)
                  THEN handles \cup {[lg |-> nextId, path |-> logFile]} ELSE handles
    /\ exists' = IF WantsFile(logFile) THEN exists \cup {logFile} ELSE exists
    /\ result' = [outcome |-> "ok", value |-> Nil]
    /\ UNCHANGED <<out, dirty>>

InitLoggerOk(level, logFile) ==
    /\ globalLogger' = [id |-> nextId, kind |-> "explicit",
                        cores |-> Cores(ParseLevel(level), logFile)]
    /\ nextId' = nextId + 1
    /\ handles' = IF WantsFile(logFile)
                  THEN handles \cup {[lg |-> nextId, path |-> logFile]} ELSE handles
    /\ exists' = IF WantsFile(logFile) THEN exists \cup {logFile} ELSE exists
    /\ result' = [outcome |-> "ok", value |-> Nil]
    /\ UNCHANGED <<out, dirty>>

\* lines 14-75
InitLogger(level, logFile) ==
    /\ proc = "running"
    /\ nCalls < MaxCalls
    /\ nCalls' = nCalls + 1
    /\ IF WantsFile(logFile) /\ OpenFails(logFile)
       THEN InitLoggerErr(level, logFile)
       ELSE InitLoggerOk(level, logFile)
    /\ UNCHANGED <<proc, prodErr, threadVars>>

\* ------------------------------------------------------------- zap pieces
\* line 81: what zap.NewProduction builds (JSON records to stderr, Info and above)
Fallback(id) == [id |-> id, kind |-> "fallback",
                 cores |-> <<[enc |-> "json", dest |-> "stderr", lvl |-> InfoLevel]>>]

\* zapcore ioCore.Enabled: the core admits the severity
CoreEnabled(core, sev) == sev >= core.lvl

\* the writer of the core can be written to: stdout and stderr always, a file
\* through the handle line 62 opened for this logger
Writable(lg, core) ==
    \/ core.dest \in {"stdout", "stderr"}
    \/ [lg |-> lg.id, path |-> core.dest] \in handles

CoreSet(lg) == {lg.cores[i] : i \in 1..Len(lg.cores)}

\* zapcore multiCore (NewTee, line 71): the record goes to every core that admits it
WriteEntry(lg, sev, msg) ==
    LET cs == {c \in CoreSet(lg) : CoreEnabled(c, sev) /\ Writable(lg, c)}
    IN [d \in Dests |->
          IF \E c \in cs : c.dest = d
          THEN LET c == CHOOSE c \in cs : c.dest = d
               IN Append(out[d], [lg |-> lg.id, lvl |-> sev, msg |-> msg, enc |-> c.enc])
          ELSE out[d]]

\* the destinations a Sync of the logger reaches
SyncDests(lg) == {c.dest : c \in {c \in CoreSet(lg) : Writable(lg, c)}}

\* the destinations a write added a record to
Written(before, after) == {d \in Dests : after[d] # before[d]}

\* zapcore multiCore.Sync: every core is asked to sync, each may fail on its own;
\* done are the destinations whose sync succeeded
Flushed(done) == dirty \ done

\* --------------------------------------------------------------- GetLogger
\* line 79: the nil test
NeedsFallbackAlways == TRUE

NeedsFallback == globalLogger = Nil

\* lines 79-82 in one step; ok is whether zap.NewProduction returned a logger.
\* The error is discarded (line 81), so on failure the nil result is assigned.
Obtain(ok) ==
    IF NeedsFallback
    THEN IF ok
         THEN /\ globalLogger' = Fallback(nextId)
              /\ nextId' = nextId + 1
              /\ prodErr' = prodErr
         ELSE /\ globalLogger' = Nil
              /\ prodErr' = TRUE
              /\ nextId' = nextId
    ELSE UNCHANGED <<globalLogger, nextId, prodErr>>

\* lines 78-84
GetLogger ==
    /\ proc = "running"
    /\ \E ok \in BOOLEAN : Obtain(ok)
    /\ result' = [outcome |-> "ok", value |-> globalLogger']
    /\ UNCHANGED <<out, dirty, exists, handles, proc, nCalls, threadVars>>

\* -------------------------------------------------------------------- Sync
\* line 88: is there a logger to sync
HasLogger == globalLogger # Nil

\* lines 87-91
SyncThroughGetLogger ==
    /\ proc = "running"
    /\ \E ok \in BOOLEAN : Obtain(ok)
    /\ UNCHANGED <<out, exists, handles>>
    /\ IF globalLogger' # Nil
       THEN \E done \in SUBSET SyncDests(globalLogger') : dirty' = Flushed(done)
       ELSE dirty' = dirty
    /\ result' = [outcome |-> "ok", value |-> Nil]
    /\ UNCHANGED <<proc, nCalls, threadVars>>

Sync ==
    /\ proc = "running"
    /\ UNCHANGED <<globalLogger, nextId, out, exists, handles, prodErr>>
    /\ IF HasLogger
       THEN \E done \in SUBSET SyncDests(globalLogger) : dirty' = Flushed(done)
       ELSE dirty' = dirty
    /\ result' = [outcome |-> "ok", value |-> Nil]
    /\ UNCHANGED <<proc, nCalls, threadVars>>

\* ----------------------------------------------------------------- helpers
\* lines 94-108: GetLogger().<fn>(msg); a nil logger panics inside zap
Log(fn, sev, msg) ==
    /\ proc = "running"
    /\ nCalls < MaxCalls
    /\ nCalls' = nCalls + 1
    /\ \E ok \in BOOLEAN : Obtain(ok)
    /\ UNCHANGED <<exists, handles>>
    /\ IF globalLogger' = Nil
       THEN /\ out' = out
            /\ dirty' = dirty
            /\ proc' \in {"running", "crashed"}
            /\ result' = [outcome |-> "panic", value |-> Nil]
       ELSE /\ out' = WriteEntry(globalLogger', sev, msg)
            /\ dirty' = dirty \cup Written(out, out')
            /\ proc' = proc
            /\ result' = [outcome |-> "ok", value |-> Nil]
    /\ UNCHANGED threadVars

Debug(msg) == Log("Debug", DebugLevel, msg)

Info(msg) == Log("Info", InfoLevel, msg)

Warn(msg) == Log("Warn", WarnLevel, msg)

Error(msg) == Log("Error", ErrorLevel, msg)

\* lines 110-112: zap writes the record, syncs the cores and calls os.Exit(1)
Fatal(msg) ==
    /\ proc = "running"
    /\ \E ok \in BOOLEAN : Obtain(ok)
    /\ UNCHANGED <<exists, handles>>
    /\ IF globalLogger' = Nil
       THEN /\ out' = out
            /\ dirty' = dirty
            /\ proc' \in {"running", "crashed"}
            /\ result' = [outcome |-> "panic", value |-> Nil]
       ELSE /\ out' = WriteEntry(globalLogger', FatalLevel, msg)
            /\ \E done \in SUBSET SyncDests(globalLogger') :
                  dirty' = (dirty \cup Written(out, out')) \ done
            /\ proc' = "exited"
            /\ result' = [outcome |-> "exit", value |-> Nil]
    /\ UNCHANGED <<nCalls, threadVars>>

\* ------------------------------------------------------------ specification
Init ==
    /\ globalLogger = Nil
    /\ nextId = 1
    /\ out = [d \in Dests |-> <<>>]
    /\ dirty = {}
    /\ exists = {}
    /\ handles = {}
    /\ proc = "running"
    /\ result = [outcome |-> "none", value |-> Nil]
    /\ nCalls = 0
    /\ prodErr = FALSE
    /\ pc = [t \in Threads |-> "idle"]
    /\ req = [t \in Threads |-> [fn |-> "", sev |-> 0, msg |-> ""]]
    /\ mine = [t \in Threads |-> {}]
    /\ got = [t \in Threads |-> Nil]
    /\ used = {}

Next ==
    \/ \E level \in LevelStrings, logFile \in LogFiles : InitLogger(level, logFile)
    \/ GetLogger
    \/ Sync
    \/ \E msg \in Msgs : Debug(msg)
    \/ \E msg \in Msgs : Info(msg)
    \/ \E msg \in Msgs : Warn(msg)
    \/ \E msg \in Msgs : Error(msg)
    \/ \E msg \in Msgs : Fatal(msg)

Spec == Init /\ [][Next]_vars

\* ------------------------------------------------- first use by goroutines
\* GetLogger and the helpers take no lock and use no sync.Once or atomic: the
\* test at line 79, the assignment at line 81 and the read at line 83 are
\* separate accesses to globalLogger, and other goroutines run in between.
HelperSev(fn) ==
    CASE fn = "Debug" -> DebugLevel
      [] fn = "Info" -> InfoLevel
      [] fn = "Warn" -> WarnLevel
      [] fn = "Error" -> ErrorLevel
      [] OTHER -> InfoLevel

\* a goroutine calls GetLogger, Debug, Info, Warn or Error
Enter(t, fn, msg) ==
    /\ proc = "running"
    /\ pc[t] = "idle"
    /\ fn # "GetLogger" => nCalls < MaxCalls
    /\ nCalls' = IF fn = "GetLogger" THEN nCalls ELSE nCalls + 1
    /\ req' = [req EXCEPT ![t] = [fn |-> fn, sev |-> HelperSev(fn), msg |-> msg]]
    /\ mine' = [mine EXCEPT ![t] = {}]
    /\ pc' = [pc EXCEPT ![t] = "test"]
    /\ UNCHANGED <<shared, proc, result, prodErr, got, used>>

\* line 79: read globalLogger and compare it with nil
GetLoggerTest(t) ==
    /\ proc = "running"
    /\ pc[t] = "test"
    /\ pc' = [pc EXCEPT ![t] = IF NeedsFallback THEN "build" ELSE "return"]
    /\ UNCHANGED <<shared, proc, result, nCalls, prodErr, req, mine, got, used>>

\* line 81: build the production logger and assign the result, nil on error
GetLoggerBuild(t) ==
    /\ proc = "running"
    /\ pc[t] = "build"
    /\ nextId <= MaxFallbacks
    /\ \E ok \in BOOLEAN :
          /\ globalLogger' = IF ok THEN Fallback(nextId) ELSE Nil
          /\ nextId' = IF ok THEN nextId + 1 ELSE nextId
          /\ prodErr' = (prodErr \/ ~ok)
    /\ mine' = [mine EXCEPT ![t] = {globalLogger'}]
    /\ pc' = [pc EXCEPT ![t] = "return"]
    /\ UNCHANGED <<out, dirty, exists, handles, proc, result, nCalls, req, got, used>>

\* line 83: return globalLogger.  The read races with the assignments of the
\* other goroutines; after line 81 a build may also return the value it has
\* just assigned without reading the variable again.
GetLoggerReturn(t) ==
    /\ proc = "running"
    /\ pc[t] = "return"
    /\ \E v \in {globalLogger} \cup mine[t] :
          /\ got' = [got EXCEPT ![t] = v]
          /\ used' = used \cup {v}
    /\ pc' = [pc EXCEPT ![t] = IF req[t].fn = "GetLogger" THEN "idle" ELSE "log"]
    /\ UNCHANGED <<shared, proc, result, nCalls, prodErr, req, mine>>

\* lines 95, 99, 103, 107: the method call on what GetLogger returned
HelperLog(t) ==
    /\ proc = "running"
    /\ pc[t] = "log"
    /\ pc' = [pc EXCEPT ![t] = "idle"]
    /\ IF got[t] = Nil
       THEN /\ out' = out
            /\ dirty' = dirty
            /\ proc' \in {"running", "crashed"}
       ELSE /\ out' = WriteEntry(got[t], req[t].sev, req[t].msg)
            /\ dirty' = dirty \cup Written(out, out')
            /\ proc' = proc
    /\ UNCHANGED <<globalLogger, nextId, exists, handles, result, nCalls, prodErr,
                   req, mine, got, used>>

NextFirstUse ==
    \/ \E t \in Threads, fn \in {"GetLogger", "Debug", "Info", "Warn", "Error"},
          msg \in Msgs : Enter(t, fn, msg)
    \/ \E t \in Threads : GetLoggerTest(t)
    \/ \E t \in Threads : GetLoggerBuild(t)
    \/ \E t \in Threads : GetLoggerReturn(t)
    \/ \E t \in Threads : HelperLog(t)

SpecFirstUse == Init /\ [][NextFirstUse]_vars


\* ------------------------------------------------------------------ claims
\* the sinks InitLogger is asked for: the console, and the file when one is named
AskedSinks(logFile) == {"stdout"} \cup (IF logFile # "" THEN {logFile} ELSE {})

\* the destinations of a logger's cores
SinksOf(lg) == {lg.cores[i].dest : i \in 1..Len(lg.cores)}

\* the levels of a logger's cores
LevelsOf(lg) == {lg.cores[i].lvl : i \in 1..Len(lg.cores)}

\* the files a logger holds an open handle on
FilesOf(lg) == {h.path : h \in {x \in handles : x.lg = lg.id}}

\* the threshold the documentation gives for a level string
TableLevel(level) ==
    IF level = "debug" THEN DebugLevel
    ELSE IF level = "warn" THEN WarnLevel
    ELSE IF level = "error" THEN ErrorLevel
    ELSE InfoLevel

\* the records of logger id in a destination, without their encoding
RecordsOf(d, id) ==
    LET mineOnly == SelectSeq(out[d], LAMBDA r : r.lg = id)
    IN [i \in 1..Len(mineOnly) |-> [lvl |-> mineOnly[i].lvl, msg |-> mineOnly[i].msg]]

\* C1: when goroutines use GetLogger or the helpers for the first time
\* concurrently and no InitLogger is called, then once all of them have
\* returned exactly one fallback logger has been built and every value
\* GetLogger returned is the logger held in globalLogger.
C1_OneFallbackForAll ==
    ((\A t \in Threads : pc[t] = "idle") /\ used # {} /\ ~prodErr)
        => (nextId = 2 /\ used = {globalLogger})

\* C2: InitLogger with a log file that cannot be opened returns an error and
\* leaves the logger state (the installed logger, the outputs, the files and
\* the handles) as it was.
C2_FailedInitKeepsState ==
    [][\A level \in LevelStrings, logFile \in LogFiles :
          (InitLogger(level, logFile) /\ logFile # "" /\ logFile \in Unopenable)
              => /\ result'.outcome = "error"
                 /\ UNCHANGED <<globalLogger, nextId, out, dirty, exists, handles>>]_vars

C2_Witness ==
    /\ result.outcome = "error"
    /\ globalLogger.kind = "explicit"
    /\ FilesOf(globalLogger) # {}

\* C3: a successful InitLogger installs a logger all of whose sinks filter at
\* Debug for "debug", Info for "info", Warn for "warn", Error for "error" and
\* Info for any other string, "" and "DEBUG" included.
C3_LevelTable ==
    [][\A level \in LevelStrings, logFile \in LogFiles :
          (InitLogger(level, logFile) /\ result'.outcome = "ok")
              => /\ LevelsOf(globalLogger') = {TableLevel(level)}
                 /\ level \in {"", "DEBUG", "trace"} => LevelsOf(globalLogger') = {InfoLevel}]_vars

C3_Witness ==
    /\ result.outcome = "ok"
    /\ globalLogger.kind = "explicit"
    /\ LevelsOf(globalLogger) = {ErrorLevel}
    /\ Len(globalLogger.cores) = 2

\* C4: through a logger installed by InitLogger with threshold T, a helper call
\* of a severity below T appends nothing anywhere, and a call of a severity at
\* or above T appends its record exactly once to the console and to the log
\* file if one was given, and to nothing else; so the console and the file
\* hold the same records of that logger in the same order.
C4_Effect(sev, msg) ==
    LET sinks == {"stdout"} \cup FilesOf(globalLogger)
        T == globalLogger.cores[1].lvl
    IN \A d \in Dests :
          IF sev >= T /\ d \in sinks
          THEN /\ Len(out'[d]) = Len(out[d]) + 1
               /\ SubSeq(out'[d], 1, Len(out[d])) = out[d]
               /\ LET r == out'[d][Len(out'[d])]
                  IN r.lg = globalLogger.id /\ r.lvl = sev /\ r.msg = msg
          ELSE out'[d] = out[d]

C4_ThresholdFilter ==
    /\ [][globalLogger.kind = "explicit" =>
            \A msg \in Msgs :
               /\ Debug(msg) => C4_Effect(DebugLevel, msg)
               /\ Info(msg) => C4_Effect(InfoLevel, msg)
               /\ Warn(msg) => C4_Effect(WarnLevel, msg)
               /\ Error(msg) => C4_Effect(ErrorLevel, msg)]_vars
    /\ [](\A h \in handles : RecordsOf("stdout", h.lg) = RecordsOf(h.path, h.lg))

C4_Witness ==
    /\ globalLogger.kind = "explicit"
    /\ LevelsOf(globalLogger) = {WarnLevel}
    /\ \E f \in FilesOf(globalLogger) :
          /\ Len(out[f]) = 2
          /\ out[f][1].lvl = ErrorLevel
          /\ out[f][2].lvl = WarnLevel
          /\ out[f][1].enc = "json"
          /\ out["stdout"][1].enc = "console"

\* C5: GetLogger always returns a usable, non-nil logger, also when the
\* construction of the fallback reports an error, and a Debug/Info/Warn/Error
\* call made after it returns normally.
C5_GetLoggerUsable ==
    [][/\ GetLogger => (result'.outcome = "ok" /\ result'.value # Nil)
       /\ \A msg \in Msgs :
             (Debug(msg) \/ Info(msg) \/ Warn(msg) \/ Error(msg))
                 => result'.outcome = "ok"]_vars

\* C6: every Fatal call obtains the logger, installing the fallback if there
\* is none, writes its record to every sink of that logger and then ends the
\* process; nothing runs after a Fatal call.
C6_FatalWritesThenExits ==
    [][/\ \A msg \in Msgs :
             Fatal(msg) =>
                /\ globalLogger' # Nil
                /\ proc' = "exited"
                /\ \A d \in SinksOf(globalLogger') :
                      /\ Len(out'[d]) = Len(out[d]) + 1
                      /\ out'[d][Len(out'[d])].lvl = FatalLevel
                      /\ out'[d][Len(out'[d])].lg = globalLogger'.id
       /\ proc = "running"]_vars

\* C7: a successful InitLogger installs a newly built logger whatever was
\* installed before: its sinks and threshold are those of the arguments, the
\* handles opened by earlier calls stay open, and every record written
\* afterwards comes from the installed logger and goes to one of its sinks.
C7_ReplaceOnInit ==
    /\ [][\A level \in LevelStrings, logFile \in LogFiles :
             (InitLogger(level, logFile) /\ result'.outcome = "ok")
                 => /\ globalLogger'.kind = "explicit"
                    /\ globalLogger'.id # globalLogger.id
                    /\ globalLogger'.id \notin {h.lg : h \in handles}
                    /\ \A d \in Dests : \A i \in 1..Len(out[d]) : out[d][i].lg # globalLogger'.id
                    /\ SinksOf(globalLogger') = AskedSinks(logFile)
                    /\ LevelsOf(globalLogger') = {TableLevel(level)}
                    /\ handles \subseteq handles'
                    /\ {h.path : h \in {x \in handles' : x.lg = globalLogger'.id}}
                          = AskedSinks(logFile) \ {"stdout"}]_vars
    /\ [][\A d \in Dests :
             out'[d] # out[d]
                 => /\ Len(out'[d]) = Len(out[d]) + 1
                    /\ out'[d][Len(out'[d])].lg = globalLogger'.id
                    /\ d \in SinksOf(globalLogger')]_vars

C7_Witness ==
    /\ globalLogger.kind = "explicit"
    /\ globalLogger.id = 2
    /\ FilesOf(globalLogger) = {"b.log"}
    /\ [lg |-> 1, path |-> "a.log"] \in handles
    /\ Len(out["b.log"]) = 1
    /\ out["a.log"] = <<>>

\* C8 as stated: once the fallback is installed it stays the installed logger
\* for ever; no later operation replaces it.
C8_FallbackPermanent ==
    [][globalLogger.kind = "fallback" => globalLogger' = globalLogger]_vars

\* C8 as amended: once the fallback is installed it stays the installed logger
\* until a successful InitLogger call, which replaces it; GetLogger, Sync, the
\* helpers and a failed InitLogger leave it installed.
C8_FallbackUntilInit ==
    [][globalLogger.kind = "fallback" =>
          /\ globalLogger' # globalLogger
                => \E level \in LevelStrings, logFile \in LogFiles :
                      InitLogger(level, logFile) /\ result'.outcome = "ok"
          /\ \A level \in LevelStrings, logFile \in LogFiles :
                (InitLogger(level, logFile) /\ result'.outcome = "ok")
                    => (globalLogger'.kind = "explicit" /\ globalLogger' # globalLogger)]_vars

C8_Witness ==
    /\ globalLogger.kind = "explicit"
    /\ globalLogger.id = 2
    /\ Len(out["stderr"]) = 1
    /\ out["stderr"][1].lg = 1
    /\ Len(out["stdout"]) = 1

\* C9: InitLogger with an empty logFile succeeds for every level string,
\* opens and creates no file, and installs a logger whose only sink is the
\* console.
C9_EmptyFileConsoleOnly ==
    [][\A level \in LevelStrings :
          InitLogger(level, "")
              => /\ result'.outcome = "ok"
                 /\ exists' = exists
                 /\ handles' = handles
                 /\ globalLogger'.kind = "explicit"
                 /\ Len(globalLogger'.cores) = 1
                 /\ globalLogger'.cores[1].dest = "stdout"
                 /\ globalLogger'.cores[1].enc = "console"]_vars

C9_Witness ==
    /\ globalLogger.kind = "explicit"
    /\ SinksOf(globalLogger) = {"stdout"}
    /\ exists = {}
    /\ handles = {}
    /\ Len(out["stdout"]) = 2

\* C10: Sync returns normally and changes neither the installed logger nor any
\* output, file or handle; with no logger installed it does nothing at all and
\* installs no fallback; with one installed it only flushes sinks of that
\* logger, whether or not a flush fails.
C10_SyncFrame ==
    [][Sync =>
          /\ result'.outcome = "ok"
          /\ UNCHANGED <<globalLogger, nextId, out, exists, handles>>
          /\ dirty' \subseteq dirty
          /\ (dirty \ dirty') \subseteq SinksOf(globalLogger)
          /\ globalLogger = Nil => dirty' = dirty]_vars

C10_Witness ==
    /\ proc = "running"
    /\ globalLogger.kind = "explicit"
    /\ \E f \in FilesOf(globalLogger) : out[f] # <<>> /\ f \notin dirty
    /\ "stdout" \in dirty

====
